---- MODULE Spec2Model ----
(***************************************************************************)
(* Model of the lodestone dashboard's data layer:                          *)
(*   src/src/data/GameSetting.ts   the useGameSetting hook                 *)
(*   src/unnamed/part_000          the InstanceTabListMap table            *)
(*                                                                         *)
(* Strings that the code concatenates (uuid, setting, token, request path) *)
(* are sequences of one-character strings, so that the template literal of *)
(* GameSetting.ts:13 is a real concatenation.  Response bodies and error   *)
(* codes are opaque and stay TLA+ strings.                                 *)
(*                                                                         *)
(* useQuery (@tanstack/react-query v4) is driven by the three things the   *)
(* hook hands it: the query key, the query function and the options        *)
(* enabled / cacheTime / staleTime.  Its observer life cycle is modelled   *)
(* as far as those three decide it: a query per key shared by the hooks    *)
(* that use the key, a fetch on mount or on enabling when the data is      *)
(* stale, one fetch at a time per query, garbage collection of an unused   *)
(* idle query after cacheTime.  Options the hook does not pass (retry,     *)
(* refetchOnWindowFocus, ...) come from the QueryClient, which is built    *)
(* outside these sources; a failed fetch is modelled at its final failure. *)
(***************************************************************************)
EXTENDS Naturals, Sequences, FiniteSets

\* ---------------------------------------------------------------- bounds

\* Number of components that call the hook at the same time.
NumHooks == 2
\* Network requests issued in one behaviour.
MaxRequests == 2
\* Longest time, in ticks, between two events that the library compares with
\* staleTime or cacheTime.
MaxElapsed == 1

\* ------------------------------------------------------- strings and inputs

\* The (uuid, setting) pairs the callers pass: a plain id with a plain name,
\* and ids and names that hold the characters the path template uses as
\* separators.
Calls ==
  { << <<"a">>, <<"c">> >>,
    << <<"a">>, <<"g","a","m","e","/","c">> >>,
    << <<"a","/","g","a","m","e">>, <<"c">> >> }

\* The arguments of one call of the hook.  Hook instances called with the
\* same arguments are interchangeable.
Hooks == { [uuid |-> c[1], setting |-> c[2], enabled |-> en] :
             c \in Calls, en \in BOOLEAN }

\* Values of context.token: absent and present.
Tokens == { <<>>, <<"t">> }

\* Response bodies of GET /instance/{uuid}/game/{setting}; "" is a legal body.
Bodies == { "", "true" }

\* AxiosError codes.
Errors == { "ERR_BAD_REQUEST", "ERR_NETWORK" }

\* ------------------------------------------------ GameSetting.ts, pure parts

\* The query key, GameSetting.ts:10.
QueryKeyNoSetting(uuid, setting) ==
  << <<"instances">>, uuid, <<"settings">>, <<"game">> >>

QueryKey(uuid, setting) ==
  << <<"instances">>, uuid, <<"settings">>, <<"game">>, setting >>

\* The template literal `/instance/${uuid}/game/${setting}`, GameSetting.ts:13.
RequestPathSwapped(uuid, setting) ==
  <<"/","i","n","s","t","a","n","c","e","/">> \o setting
    \o <<"/","g","a","m","e","/">> \o uuid

RequestPath(uuid, setting) ==
  <<"/","i","n","s","t","a","n","c","e","/">> \o uuid
    \o <<"/","g","a","m","e","/">> \o setting

\* The option enabled: context.token.length > 0 && enabled, GameSetting.ts:19.
EnabledIgnoringToken(tok, en) == en

EnabledOption(tok, en) == Len(tok) > 0 /\ en

\* cacheTime: 0, GameSetting.ts:20.
cacheTime == 0

\* staleTime: 0, GameSetting.ts:21.
staleTimeLong == MaxElapsed + 1

staleTime == 0

\* The .then callback, GameSetting.ts:14-16: the body of the response.
UnwrapStatusText(response) == response.statusText

Unwrap(response) == response.data

\* An axios response (success) and an AxiosError (failure) as the server and
\* the network produce them.
AxiosResponse(body) == [data |-> body, status |-> 200, statusText |-> "OK"]

\* The query function, GameSetting.ts:11-17: what the promise it returns
\* settles to, given how axios.get settled.  A rejection of axios.get passes
\* through the .then untouched.
queryFnSwallow(outcome) ==
  IF outcome.ok
    THEN [ok |-> TRUE, value |-> Unwrap(outcome.response)]
    ELSE [ok |-> TRUE, value |-> outcome.error]

queryFn(outcome) ==
  IF outcome.ok
    THEN [ok |-> TRUE, value |-> Unwrap(outcome.response)]
    ELSE [ok |-> FALSE, value |-> outcome.error]

\* ------------------------------------------------------ part_000, the table

TabListSwapped ==
  [minecraft |->
    << [title |-> "Settings",   path |-> "settings", width |-> "max-w-2xl"],
       [title |-> "Overview",   path |-> "overview", width |-> "max-w-4xl"],
       [title |-> "Console",    path |-> "console",  width |-> "max-w-6xl"],
       [title |-> "Files",      path |-> "files",    width |-> "max-w-6xl"],
       [title |-> "Tasks",      path |-> "tasks",    width |-> "max-w-4xl"],
       [title |-> "Event Logs", path |-> "logs",     width |-> "max-w-4xl"] >>]

InstanceTabListMap ==
  [minecraft |->
    << [title |-> "Overview",   path |-> "overview", width |-> "max-w-4xl"],
       [title |-> "Settings",   path |-> "settings", width |-> "max-w-2xl"],
       [title |-> "Console",    path |-> "console",  width |-> "max-w-6xl"],
       [title |-> "Files",      path |-> "files",    width |-> "max-w-6xl"],
       [title |-> "Tasks",      path |-> "tasks",    width |-> "max-w-4xl"],
       [title |-> "Event Logs", path |-> "logs",     width |-> "max-w-4xl"] >>]

\* -------------------------------------------------------------------- state

VARIABLES
  token,     \* context.token of LodestoneContext
  hooks,     \* the mounted hook instances: arguments -> number of instances
  queries,   \* the query cache: query key -> query state
  inflight,  \* the requests on the wire
  issued,    \* how many requests axios.get has sent so far
  settled,   \* history: per query, the request that settled last, how axios.get
             \* settled it, and whether another request was on the wire then
  tabs       \* the module-level binding InstanceTabListMap

vars == <<token, hooks, queries, inflight, issued, settled, tabs>>

\* A query that an observer has just created: no data, no error, not fetching.
NewQuery ==
  [status |-> "loading", fetchStatus |-> "idle", data |-> <<>>, error |-> <<>>]

KeyOf(h) == QueryKey(h.uuid, h.setting)

\* The number of mounted instances in hs.
RECURSIVE CountIn(_, _)
CountIn(hs, S) ==
  IF S = {} THEN 0
  ELSE LET h == CHOOSE x \in S : TRUE IN hs[h] + CountIn(hs, S \ {h})

Mounted(hs) == { h \in Hooks : hs[h] > 0 }

\* The mounted hooks of hs that observe the query of key k.
Observers(hs, k) == { h \in Mounted(hs) : KeyOf(h) = k }

\* The query of key k in the cache qs, as an observer finds or creates it.
QueryAt(qs, k) == IF k \in DOMAIN qs THEN qs[k] ELSE NewQuery

\* Query.isStaleByTime(staleTime): no data yet, or the data was updated at
\* least staleTime ago (e is the time since the update).
IsStale(q, e) == q.data = <<>> \/ e >= staleTime

\* Whether an observer finds the query q stale: its data may be of any age
\* between 0 and MaxElapsed.
StaleChoices(q) == { IsStale(q, e) : e \in 0..MaxElapsed }

\* The function f with key k bound to v, and with key k removed.
Put(f, k, v) == [x \in DOMAIN f \cup {k} |-> IF x = k THEN v ELSE f[x]]

Drop(f, k) == [x \in DOMAIN f \ {k} |-> f[x]]

\* Query.fetch for the query of key k, on behalf of a hook called with
\* (uuid, setting): a query that is already fetching keeps its one request;
\* otherwise the query function runs, with uuid and setting in its closure,
\* and axios.get puts one request on the wire.  st is the triple
\* [q |-> cache, r |-> requests on the wire, n |-> requests sent].
Fetch(st, k, uuid, setting) ==
  LET q == QueryAt(st.q, k) IN
  IF q.fetchStatus = "fetching"
    THEN st
    ELSE [q |-> Put(st.q, k,
                    [q EXCEPT !.fetchStatus = "fetching",
                              !.status = IF q.data = <<>> THEN "loading" ELSE @,
                              !.error  = IF q.data = <<>> THEN <<>> ELSE @]),
          r |-> st.r \cup {[key |-> k, uuid |-> uuid, setting |-> setting,
                            path |-> RequestPath(uuid, setting)]},
          n |-> st.n + 1]

\* The hooks in S, one after the other, each fetching its query.
RECURSIVE FetchEach(_, _)
FetchEach(st, S) ==
  IF S = {} THEN st
  ELSE LET h == CHOOSE x \in S : TRUE IN
       FetchEach(Fetch(st, KeyOf(h), h.uuid, h.setting), S \ {h})

\* ------------------------------------------------------------------ actions

Init ==
  /\ token \in Tokens
  /\ hooks = [h \in Hooks |-> 0]
  /\ queries = << >>
  /\ inflight = {}
  /\ issued = 0
  /\ settled = << >>
  /\ tabs = InstanceTabListMap

\* A component mounts and calls useGameSetting(uuid, setting, enabled): the
\* observer finds or creates the query of its key and, when enabled and the
\* data is stale, fetches.
Mount(h, stale) ==
  LET k  == KeyOf(h)
      q  == QueryAt(queries, k)
      st == [q |-> Put(queries, k, q), r |-> inflight, n |-> issued]
      nx == IF EnabledOption(token, h.enabled) /\ stale
              THEN Fetch(st, k, h.uuid, h.setting) ELSE st
  IN /\ CountIn(hooks, Hooks) < NumHooks
     /\ nx.n <= MaxRequests
     /\ hooks' = [hooks EXCEPT ![h] = @ + 1]
     /\ queries' = nx.q
     /\ inflight' = nx.r
     /\ issued' = nx.n
     /\ UNCHANGED <<token, settled, tabs>>

\* A component mounted as h renders again with the other value of enabled:
\* the observer fetches when the option enabled turns from false to true and
\* the data is stale.
SetEnabled(h, stale) ==
  LET k  == KeyOf(h)
      g  == [h EXCEPT !.enabled = ~h.enabled]
      st == [q |-> queries, r |-> inflight, n |-> issued]
      nx == IF /\ EnabledOption(token, g.enabled)
               /\ ~EnabledOption(token, h.enabled)
               /\ stale
              THEN Fetch(st, k, h.uuid, h.setting) ELSE st
  IN /\ hooks[h] > 0
     /\ nx.n <= MaxRequests
     /\ hooks' = [hooks EXCEPT ![h] = @ - 1, ![g] = @ + 1]
     /\ queries' = nx.q
     /\ inflight' = nx.r
     /\ issued' = nx.n
     /\ UNCHANGED <<token, settled, tabs>>

\* The context's token changes; every mounted hook renders again, and those
\* whose option enabled turns from false to true fetch stale data.  stale[k]
\* tells whether the query of key k is found stale.
SetToken(t, stale) ==
  LET S  == { h \in Mounted(hooks) :
                /\ EnabledOption(t, h.enabled)
                /\ ~EnabledOption(token, h.enabled)
                /\ stale[KeyOf(h)] }
      nx == FetchEach([q |-> queries, r |-> inflight, n |-> issued], S)
  IN /\ t # token
     /\ nx.n <= MaxRequests
     /\ token' = t
     /\ queries' = nx.q
     /\ inflight' = nx.r
     /\ issued' = nx.n
     /\ UNCHANGED <<hooks, settled, tabs>>

\* A component mounted as h unmounts.  The request of a fetch under way is
\* not aborted (the query function takes no signal), and the query stays in
\* the cache until its garbage-collection timer fires.
Unmount(h) ==
  /\ hooks[h] > 0
  /\ hooks' = [hooks EXCEPT ![h] = @ - 1]
  /\ UNCHANGED <<token, queries, inflight, issued, settled, tabs>>

\* The promise of request r settles with `outcome` (how axios.get settled),
\* through the query function, into the query that issued it.
Settle(r, outcome) ==
  LET k == r.key
      s == queryFn(outcome)
      q == queries[k]
  IN /\ r \in inflight
     /\ inflight' = inflight \ {r}
     /\ queries' = [queries EXCEPT ![k] =
          IF s.ok
            THEN [q EXCEPT !.status = "success", !.fetchStatus = "idle",
                           !.data = <<s.value>>, !.error = <<>>]
            ELSE [q EXCEPT !.status = "error", !.fetchStatus = "idle",
                           !.error = <<s.value>>]]
     /\ settled' = Put(settled, k,
                       [uuid |-> r.uuid, setting |-> r.setting,
                        ok |-> outcome.ok, body |-> outcome.response.data,
                        error |-> outcome.error,
                        overlap |-> inflight \ {r} # {}])
     /\ UNCHANGED <<token, hooks, issued, tabs>>

\* The server answers request r with a 2xx response carrying `body`.
Resolve(r, body) ==
  Settle(r, [ok |-> TRUE, response |-> AxiosResponse(body), error |-> ""])

\* Request r fails with the AxiosError `err`.
Reject(r, err) ==
  Settle(r, [ok |-> FALSE, response |-> AxiosResponse(""), error |-> err])

\* The garbage-collection timer of the query of key k fires.  The timer is
\* started when the query loses its last observer and again when a fetch
\* settles, and fires cacheTime later.  The query is removed if it has no
\* observers and is not fetching.
GC(k) ==
  /\ Observers(hooks, k) = {}
  /\ queries[k].fetchStatus = "idle"
  /\ \E e \in 0..MaxElapsed : e >= cacheTime
  /\ queries' = Drop(queries, k)
  /\ settled' = Drop(settled, k)
  /\ UNCHANGED <<token, hooks, inflight, issued, tabs>>

Next ==
  \/ \E h \in Hooks :
       \E stale \in StaleChoices(QueryAt(queries, KeyOf(h))) : Mount(h, stale)
  \/ \E h \in Hooks :
       \E stale \in StaleChoices(QueryAt(queries, KeyOf(h))) : SetEnabled(h, stale)
  \/ \E t \in Tokens :
       \E stale \in { f \in [DOMAIN queries -> BOOLEAN] :
                        \A k \in DOMAIN queries : f[k] \in StaleChoices(queries[k]) } :
         SetToken(t, stale)
  \/ \E h \in Hooks : Unmount(h)
  \/ \E r \in inflight, body \in Bodies : Resolve(r, body)
  \/ \E r \in inflight, err \in Errors : Reject(r, err)
  \/ \E k \in DOMAIN queries : GC(k)

Spec == Init /\ [][Next]_vars

\* ------------------------------------------------------------------- claims

\* The literal texts of the path template.
InstancePrefix == <<"/","i","n","s","t","a","n","c","e","/">>

GameInfix == <<"/","g","a","m","e","/">>

Call(uuid, setting, en) == [uuid |-> uuid, setting |-> setting, enabled |-> en]

\* The number of instances mounted for the pair c with a non-empty token and
\* enabled = true, now and after the step.
Active(c) == IF Len(token) > 0 THEN hooks[Call(c[1], c[2], TRUE)] ELSE 0

ActiveNext(c) == IF Len(token') > 0 THEN hooks'[Call(c[1], c[2], TRUE)] ELSE 0

\* Some instance is mounted for the pair c, now and after the step.
Observed(c) == \E en \in BOOLEAN : hooks[Call(c[1], c[2], en)] > 0

ObservedNext(c) == \E en \in BOOLEAN : hooks'[Call(c[1], c[2], en)] > 0

\* The requests a step puts on the wire, and those it takes off.
Sent == inflight' \ inflight

Answered == inflight \ inflight'

\* C1, first half: a hook that is mounted with a non-empty token and
\* enabled = true has its request on the wire, or has had it answered.
C1_Fires ==
  \A c \in Calls : Active(c) > 0 =>
    /\ QueryKey(c[1], c[2]) \in DOMAIN queries
    /\ \/ \E r \in inflight : r.uuid = c[1] /\ r.setting = c[2]
       \/ QueryKey(c[1], c[2]) \in DOMAIN settled

\* C1, second half: a step sends a request only on behalf of a hook that is
\* then mounted with a non-empty token and enabled = true.
C1_Gated ==
  \A r \in Sent : ActiveNext(<<r.uuid, r.setting>>) > 0

C2_PathIsConcatenation ==
  \A r \in inflight :
    /\ <<r.uuid, r.setting>> \in Calls
    /\ Len(r.path) = 10 + Len(r.uuid) + 6 + Len(r.setting)
    /\ SubSeq(r.path, 1, 10) = InstancePrefix
    /\ SubSeq(r.path, 11, 10 + Len(r.uuid)) = r.uuid
    /\ SubSeq(r.path, 11 + Len(r.uuid), 16 + Len(r.uuid)) = GameInfix
    /\ SubSeq(r.path, 17 + Len(r.uuid), Len(r.path)) = r.setting

\* C2 witness: a request for the uuid "a/game" and the setting "c" is on the
\* wire, its path "/instance/a/game/game/c" with the uuid's "/" left as it is.
C2_Witness ==
  \E r \in inflight :
    /\ r.uuid = <<"a","/","g","a","m","e">>
    /\ r.setting = <<"c">>
    /\ r.path = <<"/","i","n","s","t","a","n","c","e","/",
                   "a","/","g","a","m","e",
                   "/","g","a","m","e","/","c">>

\* C3: a step that activates a hook (a mount, or enabled or the token turning
\* it active) while its query has no fetch under way sends a new request for
\* that hook's uuid and setting, whatever the cache holds.
C3_Step ==
  \A c \in Calls :
    LET k == QueryKey(c[1], c[2]) IN
    ( /\ ActiveNext(c) > Active(c)
      /\ (k \in DOMAIN queries => queries[k].fetchStatus = "idle") )
    => /\ issued' > issued
       /\ \E r \in Sent : r.uuid = c[1] /\ r.setting = c[2]

C3_ActivationRefetches == [][C3_Step]_vars

\* C3 witness: a query that holds the data of an earlier, resolved request is
\* fetching again for a mounted, active hook.
C3_Witness ==
  \E c \in Calls :
    LET k == QueryKey(c[1], c[2]) IN
    /\ Active(c) > 0
    /\ k \in DOMAIN settled
    /\ settled[k].ok
    /\ queries[k].data # <<>>
    /\ queries[k].fetchStatus = "fetching"
    /\ \E r \in inflight : r.key = k

\* C5: a step in which a request fails sets the query's error to the
\* AxiosError of that request and leaves its data as it was.
C5_Step ==
  \A r \in Answered :
    ~settled'[r.key].ok =>
      /\ queries'[r.key].status = "error"
      /\ queries'[r.key].error = <<settled'[r.key].error>>
      /\ queries'[r.key].data = queries[r.key].data

C6_DataIsBody ==
  \A k \in DOMAIN queries :
    queries[k].status = "success" =>
      /\ k \in DOMAIN settled
      /\ settled[k].ok
      /\ queries[k].data = <<settled[k].body>>

\* C6 witness: a mounted hook exposes the empty body "" as its data.
C6_Witness ==
  \E h \in Mounted(hooks) :
    /\ KeyOf(h) \in DOMAIN settled
    /\ queries[KeyOf(h)].status = "success"
    /\ settled[KeyOf(h)].body = ""
    /\ queries[KeyOf(h)].data = <<"">>

\* C7: the request that settled a hook's query, and every request on the wire
\* for it, was made for that hook's own uuid and setting.
C7_OwnRequestOnly ==
  \A h \in Mounted(hooks) :
    /\ KeyOf(h) \in DOMAIN settled =>
         /\ settled[KeyOf(h)].uuid = h.uuid
         /\ settled[KeyOf(h)].setting = h.setting
    /\ \A r \in inflight : r.key = KeyOf(h) =>
         r.uuid = h.uuid /\ r.setting = h.setting

\* C7 witness: two hooks with different (uuid, setting) pairs, whose requests
\* were on the wire together, expose different results.
C7_Witness ==
  \E h1, h2 \in Mounted(hooks) :
    /\ <<h1.uuid, h1.setting>> # <<h2.uuid, h2.setting>>
    /\ KeyOf(h1) \in DOMAIN settled /\ KeyOf(h2) \in DOMAIN settled
    /\ settled[KeyOf(h1)].overlap
    /\ queries[KeyOf(h1)].data = <<"true">>
    /\ queries[KeyOf(h2)].data = <<"">>

\* What the hooks mounted for the pair c expose: the data and the error of
\* their query, now and after the step.
Exposed(c) ==
  <<queries[QueryKey(c[1], c[2])].data, queries[QueryKey(c[1], c[2])].error>>

ExposedNext(c) ==
  <<queries'[QueryKey(c[1], c[2])].data, queries'[QueryKey(c[1], c[2])].error>>

\* C8: a step answers at most one request, and what a mounted hook exposes
\* changes only in the step that answers a request made for its uuid and
\* setting, or in a step that sends a new one.
C8_Step ==
  /\ Cardinality(Answered) <= 1
  /\ \A c \in Calls :
       (Observed(c) /\ ObservedNext(c) /\ ExposedNext(c) # Exposed(c)) =>
         \E r \in Answered \cup Sent : r.uuid = c[1] /\ r.setting = c[2]

C9_TabListFixed ==
  /\ DOMAIN tabs = {"minecraft"}
  /\ [i \in 1..Len(tabs.minecraft) |-> tabs.minecraft[i].title]
       = <<"Overview", "Settings", "Console", "Files", "Tasks", "Event Logs">>
  /\ [i \in 1..Len(tabs.minecraft) |-> tabs.minecraft[i].path]
       = <<"overview", "settings", "console", "files", "tasks", "logs">>

\* C9 witness: hooks have been mounted, requests sent and answered, and the
\* table is the one the module defined.
C9_Witness ==
  /\ issued = MaxRequests
  /\ inflight = {}
  /\ Mounted(hooks) # {}
  /\ tabs = InstanceTabListMap

NoSlash(str) == \A i \in 1..Len(str) : str[i] # "/"

\* C10 as stated: for any two mounted hooks the query keys are equal if and
\* only if the request paths are equal.
C10_KeysIffPaths ==
  \A h1, h2 \in Mounted(hooks) :
    KeyOf(h1) = KeyOf(h2)
      <=> RequestPath(h1.uuid, h1.setting) = RequestPath(h2.uuid, h2.setting)

\* C10 as amended: equal keys have equal paths, and equal paths have equal
\* keys when neither uuid holds a "/".
C10_KeysIffPathsNoSlash ==
  \A h1, h2 \in Mounted(hooks) :
    LET p1 == RequestPath(h1.uuid, h1.setting)
        p2 == RequestPath(h2.uuid, h2.setting)
    IN /\ KeyOf(h1) = KeyOf(h2) => p1 = p2
       /\ (NoSlash(h1.uuid) /\ NoSlash(h2.uuid) /\ p1 = p2)
            => KeyOf(h1) = KeyOf(h2)

\* C10 witness: two hooks are mounted for the same uuid "a" and the settings
\* "c" and "game/c": two keys, two paths.
C10_Witness ==
  \E h1, h2 \in Mounted(hooks) :
    /\ h1.uuid = <<"a">> /\ h2.uuid = <<"a">>
    /\ h1.setting = <<"c">>
    /\ h2.setting = <<"g","a","m","e","/","c">>
    /\ KeyOf(h1) # KeyOf(h2)
    /\ RequestPath(h1.uuid, h1.setting) # RequestPath(h2.uuid, h2.setting)

====
